---- MODULE Spec2Model ----
(***************************************************************************)
(* Online-File-Drive: version lifecycle, folder tree and public sharing.   *)
(*                                                                         *)
(* The model follows three programs of the repository:                     *)
(*   - the file-management service (routes/fileRoutes.js, versionService,  *)
(*     fileService, authClient), whose handlers are async and interleave   *)
(*     at every await;                                                     *)
(*   - the in-memory metadata service (mock-metadata-service.js), whose    *)
(*     handlers are synchronous and therefore atomic;                      *)
(*   - the share lambda (signed variant and live-metadata variant).        *)
(*                                                                         *)
(* Storage keys `${userId}/${fileId}/v${version}/${filename}` are modelled *)
(* as the tuple <<userId, fileId, version, filename>>.                     *)
(***************************************************************************)
EXTENDS Integers, Sequences, FiniteSets, TLC

\* ---------------------------------------------------------------- bounds
MaxFiles == 2            \* file ids handed out by generateFileId
MaxVersionNum == 4       \* replace requests are not started past this version
MaxShares == 1           \* public ids handed out by uuidv4
MaxTime == 1             \* clock ticks (unit: one day)
StorageQuota == 2        \* user.storageQuota, scaled

\* ------------------------------------------------------- program constants
MAX_VERSIONS == 3
TokenTTL == 1            \* jwt expiresIn "1d"

\* ------------------------------------------------------------ input domains
Users == {"u1", "u2"}
Filenames == {"a", "b"}
Sizes == {1, 2, 3}
FileIds == 1..MaxFiles
FolderIds == {"f1", "f2", "f3"}
ROOT == "root"           \* sentinel parent / folder id, never a stored row
NULL == "null"           \* JavaScript null (a file uploaded without folderId)
Slots == {"r1", "r2"}
PublicIds == 1..(MaxShares + 1)   \* the last one is never handed out

VARIABLES
    metadataStore,   \* Map fileId -> file metadata        (metadata service)
    folderStore,     \* Map folderId -> folder record      (metadata service)
    objects,         \* keys of the objects live in the bucket
    shareTable,      \* Map publicId -> share record       (share table)
    minted,          \* Map publicId -> what POST /share signed and saw
    users,           \* Map userId -> [storageQuota, storageUsed] (auth service)
    req,             \* per connection: the request in flight and its locals
    resp,            \* the response sent by the last step, if it sent one
    nextFileId,      \* generateFileId: next unused id
    nextPublicId,    \* uuidv4: next unused id
    now,             \* wall clock
    created,         \* history: how many completed requests created (file, version)
    failed,          \* history: some collaborator call has failed
    hung             \* the metadata service is stuck in an unbounded loop

vars == <<metadataStore, folderStore, objects, shareTable, minted, users, req,
          resp, nextFileId, nextPublicId, now, created, failed, hung>>

\* ------------------------------------------------------------------ helpers
Idle == [op |-> "idle"]
NoResp == [op |-> "none"]

MapSet(m, k, v) == (k :> v) @@ m
MapDelete(m, k) == [x \in (DOMAIN m) \ {k} |-> m[x]]

Min(S) == CHOOSE x \in S : \A y \in S : x <= y
Max(S) == CHOOSE x \in S : \A y \in S : x >= y

VersionNumbers(versions) == {versions[i].version : i \in 1..Len(versions)}

\* fileService.buildS3Key
buildS3Key(userId, fileId, version, filename) == <<userId, fileId, version, filename>>

\* versionService.createVersionMetadata (createdAt is not modelled)
createVersionMetadata(versionNumber, s3Key, size) ==
    [version |-> versionNumber, s3Key |-> s3Key, size |-> size]

\* Array.prototype.slice(-n)
SliceLast(s, n) == IF Len(s) <= n THEN s ELSE SubSeq(s, Len(s) - n + 1, Len(s))

\* a plausible slip in addVersion: keep the first MAX_VERSIONS entries
addVersion_keepFirst(currentVersions, newVersion) ==
    LET versions == Append(currentVersions, newVersion)
    IN  IF Len(versions) > MAX_VERSIONS
        THEN [versionsToKeep |-> SubSeq(versions, 1, MAX_VERSIONS),
              deletedVersion |-> <<versions[Len(versions)]>>]
        ELSE [versionsToKeep |-> versions, deletedVersion |-> <<>>]

\* versionService.addVersion; deletedVersion is <<>> for null, <<v>> otherwise
addVersion(currentVersions, newVersion) ==
    LET versions == Append(currentVersions, newVersion)
    IN  IF Len(versions) > MAX_VERSIONS
        THEN [versionsToKeep |-> SliceLast(versions, MAX_VERSIONS),
              deletedVersion |-> <<versions[1]>>]
        ELSE [versionsToKeep |-> versions, deletedVersion |-> <<>>]

\* a slip in checkStorageQuota: a request for exactly the remaining space is refused
checkStorageQuota_strict(u, requiredSpace) ==
    LET availableSpace == users[u].storageQuota - users[u].storageUsed
    IN  ~(availableSpace <= requiredSpace)

\* authClient.checkStorageQuota: TRUE when the request is admitted
checkStorageQuota(u, requiredSpace) ==
    LET availableSpace == users[u].storageQuota - users[u].storageUsed
    IN  ~(availableSpace < requiredSpace)

Bump(f, v) == [created EXCEPT ![f][v] = IF @ < 2 THEN @ + 1 ELSE @]

\* --------------------------------------------------------------------- Init
Init ==
    /\ metadataStore = <<>>
    /\ folderStore = <<>>
    /\ objects = {}
    /\ shareTable = <<>>
    /\ minted = <<>>
    /\ users = [u \in Users |-> [storageQuota |-> StorageQuota, storageUsed |-> 0]]
    /\ req = [r \in Slots |-> Idle]
    /\ resp = NoResp
    /\ nextFileId = 1
    /\ nextPublicId = 1
    /\ now = 0
    /\ created = [f \in FileIds |-> [v \in 1..(MaxVersionNum + 1) |-> 0]]
    /\ failed = FALSE
    /\ hung = FALSE

\* Express error handler: what a thrown error becomes
Reply(op, status) == [op |-> op, status |-> status]

NoInflight == \A r \in Slots : req[r].op = "idle"

UnchangedShare == UNCHANGED <<shareTable, minted, nextPublicId, now>>
UnchangedFolder == UNCHANGED <<folderStore, hung>>

\* ------------------------------------------ file-management: POST /upload
\* authenticate, checkStorageQuota and generateFileId: the user directory is
\* never written, so these awaits commute with every other step and are one step.
UploadStart(r, u, name, size, folderId, isPublic) ==
    /\ req[r].op = "idle"
    /\ nextFileId <= MaxFiles
    /\ IF ~checkStorageQuota(u, size)
       THEN /\ resp' = Reply("upload", 413)
            /\ UNCHANGED <<req, nextFileId>>
       ELSE /\ req' = [req EXCEPT ![r] =
                    [op |-> "upload", pc |-> "put", user |-> u, fileId |-> nextFileId,
                     filename |-> name, size |-> size, folderId |-> folderId,
                     isPublic |-> isPublic,
                     s3Key |-> buildS3Key(u, nextFileId, 1, name)]]
            /\ nextFileId' = nextFileId + 1
            /\ resp' = NoResp
    /\ UNCHANGED <<metadataStore, objects, users, created, failed>>
    /\ UnchangedShare /\ UnchangedFolder

\* fileService.uploadToS3
UploadPut(r) ==
    /\ req[r].op = "upload" /\ req[r].pc = "put"
    /\ objects' = objects \cup {req[r].s3Key}
    /\ req' = [req EXCEPT ![r].pc = "create"]
    /\ resp' = NoResp
    /\ UNCHANGED <<metadataStore, users, nextFileId, created, failed>>
    /\ UnchangedShare /\ UnchangedFolder

\* metadataClient.createMetadata -> POST /api/metadata, then the 201 response
UploadCreate(r) ==
    /\ req[r].op = "upload" /\ req[r].pc = "create"
    /\ LET q == req[r]
           metadataPayload ==
               [userId |-> q.user, filename |-> q.filename, size |-> q.size,
                s3Key |-> q.s3Key, folderId |-> q.folderId, isPublic |-> q.isPublic,
                currentVersion |-> 1,
                versions |-> <<createVersionMetadata(1, q.s3Key, q.size)>>]
       IN  IF hung
           THEN /\ resp' = Reply("upload", 500)
                /\ failed' = TRUE
                /\ UNCHANGED <<metadataStore, created>>
           ELSE /\ metadataStore' = MapSet(metadataStore, q.fileId, metadataPayload)
                /\ created' = Bump(q.fileId, 1)
                /\ resp' = [op |-> "upload", status |-> 201, fileId |-> q.fileId,
                            currentVersion |-> 1]
                /\ UNCHANGED failed
    /\ req' = [req EXCEPT ![r] = Idle]
    /\ UNCHANGED <<objects, users, nextFileId>>
    /\ UnchangedShare /\ UnchangedFolder

\* ------------------------------------------------ file-management: access
\* a slip in checkFileAccess: everybody may read
checkFileAccess_open(metadata, userId) == TRUE

\* fileService.checkFileAccess(...).canAccess
checkFileAccess(metadata, userId) ==
    IF metadata.userId = userId THEN TRUE
    ELSE IF metadata.isPublic THEN TRUE
    ELSE FALSE

\* a slip in the write handlers: the read rule is applied
isOwner_canAccess(metadata, userId) == checkFileAccess(metadata, userId)

\* `metadata.userId !== req.user.id` of PUT /:fileId and DELETE /:fileId
isOwner(metadata, userId) == metadata.userId = userId

\* ------------------------------------------ file-management: PUT /:fileId
\* a slip in PUT /:fileId: the whole new size is charged
sizeDifference_full(size, metadata) == size

\* `size - metadata.size`
sizeDifference(size, metadata) == size - metadata.size

\* getMetadata, the ownership check and the quota check (see UploadStart)
ReplaceGet(r, u, fileId, name, size) ==
    /\ req[r].op = "idle"
    /\ IF hung
       THEN /\ resp' = Reply("replace", 500) /\ failed' = TRUE /\ UNCHANGED req
       ELSE IF fileId \notin DOMAIN metadataStore
       THEN /\ resp' = Reply("replace", 404) /\ failed' = TRUE /\ UNCHANGED req
       ELSE LET metadata == metadataStore[fileId]
            IN  /\ metadata.currentVersion < MaxVersionNum
                /\ UNCHANGED failed
                /\ IF ~isOwner(metadata, u)
                   THEN /\ resp' = Reply("replace", 403) /\ UNCHANGED req
                   ELSE IF /\ sizeDifference(size, metadata) > 0
                           /\ ~checkStorageQuota(u, sizeDifference(size, metadata))
                   THEN /\ resp' = Reply("replace", 413) /\ UNCHANGED req
                   ELSE /\ resp' = NoResp
                        /\ req' = [req EXCEPT ![r] =
                             [op |-> "replace", pc |-> "put", user |-> u,
                              fileId |-> fileId, filename |-> name, size |-> size,
                              metadata |-> metadata,
                              newVersion |-> metadata.currentVersion + 1,
                              s3Key |-> buildS3Key(u, fileId,
                                           metadata.currentVersion + 1, name)]]
    /\ UNCHANGED <<metadataStore, objects, users, nextFileId, created>>
    /\ UnchangedShare /\ UnchangedFolder

\* fileService.uploadToS3 of the new version
ReplacePut(r) ==
    /\ req[r].op = "replace" /\ req[r].pc = "put"
    /\ objects' = objects \cup {req[r].s3Key}
    /\ req' = [req EXCEPT ![r].pc = "evict"]
    /\ resp' = NoResp
    /\ UNCHANGED <<metadataStore, users, nextFileId, created, failed>>
    /\ UnchangedShare /\ UnchangedFolder

\* what the request will write: versionService.addVersion on the metadata it read
Managed(q) ==
    addVersion(q.metadata.versions,
               createVersionMetadata(q.newVersion, q.s3Key, q.size))

\* a slip in deleteOldVersion: the S3 error is thrown on and ends the request
ReplaceEvict_throws(r, s3ok) ==
    /\ req[r].op = "replace" /\ req[r].pc = "evict"
    /\ LET deletedVersion == Managed(req[r]).deletedVersion
       IN  IF deletedVersion = <<>>
           THEN /\ s3ok /\ UNCHANGED <<objects, failed>>
                /\ req' = [req EXCEPT ![r].pc = "update"]
                /\ resp' = NoResp
           ELSE IF s3ok
           THEN /\ objects' = objects \ {deletedVersion[1].s3Key} /\ UNCHANGED failed
                /\ req' = [req EXCEPT ![r].pc = "update"]
                /\ resp' = NoResp
           ELSE /\ failed' = TRUE /\ UNCHANGED objects
                /\ req' = [req EXCEPT ![r] = Idle]
                /\ resp' = Reply("replace", 500)
    /\ UNCHANGED <<metadataStore, users, nextFileId, created>>
    /\ UnchangedShare /\ UnchangedFolder

\* versionService.deleteOldVersion: fileService.deleteFromS3 swallows S3 errors
ReplaceEvict(r, s3ok) ==
    /\ req[r].op = "replace" /\ req[r].pc = "evict"
    /\ LET deletedVersion == Managed(req[r]).deletedVersion
       IN  IF deletedVersion = <<>>
           THEN s3ok /\ UNCHANGED <<objects, failed>>
           ELSE IF s3ok
           THEN objects' = objects \ {deletedVersion[1].s3Key} /\ UNCHANGED failed
           ELSE failed' = TRUE /\ UNCHANGED objects
    /\ req' = [req EXCEPT ![r].pc = "update"]
    /\ resp' = NoResp
    /\ UNCHANGED <<metadataStore, users, nextFileId, created>>
    /\ UnchangedShare /\ UnchangedFolder

\* metadataClient.updateMetadata -> PUT /api/metadata/:fileId, then the 200 response
ReplaceUpdate(r) ==
    /\ req[r].op = "replace" /\ req[r].pc = "update"
    /\ LET q == req[r]
           m == Managed(q)
       IN  IF hung \/ q.fileId \notin DOMAIN metadataStore
           THEN /\ resp' = Reply("replace", 500)
                /\ failed' = TRUE
                /\ UNCHANGED <<metadataStore, created>>
           ELSE /\ metadataStore' = [metadataStore EXCEPT ![q.fileId] =
                        [@ EXCEPT !.filename = q.filename, !.size = q.size,
                                  !.s3Key = q.s3Key, !.currentVersion = q.newVersion,
                                  !.versions = m.versionsToKeep]]
                /\ created' = Bump(q.fileId, q.newVersion)
                /\ resp' = [op |-> "replace", status |-> 200, fileId |-> q.fileId,
                            currentVersion |-> q.newVersion,
                            totalVersions |-> Len(m.versionsToKeep),
                            deletedVersion |-> m.deletedVersion]
                /\ UNCHANGED failed
    /\ req' = [req EXCEPT ![r] = Idle]
    /\ UNCHANGED <<objects, users, nextFileId>>
    /\ UnchangedShare /\ UnchangedFolder

\* ------------------------------------------ file-management: DELETE /:fileId
DeleteGet(r, u, fileId) ==
    /\ req[r].op = "idle"
    /\ IF hung
       THEN /\ resp' = Reply("delete", 500) /\ failed' = TRUE /\ UNCHANGED req
       ELSE IF fileId \notin DOMAIN metadataStore
       THEN /\ resp' = Reply("delete", 404) /\ failed' = TRUE /\ UNCHANGED req
       ELSE LET metadata == metadataStore[fileId]
            IN  /\ UNCHANGED failed
                /\ IF ~isOwner(metadata, u)
                   THEN /\ resp' = Reply("delete", 403) /\ UNCHANGED req
                   ELSE /\ resp' = NoResp
                        /\ req' = [req EXCEPT ![r] =
                             [op |-> "delete", pc |-> "s3", user |-> u,
                              fileId |-> fileId, metadata |-> metadata, i |-> 1]]
    /\ UNCHANGED <<metadataStore, objects, users, nextFileId, created>>
    /\ UnchangedShare /\ UnchangedFolder

\* one turn of `for (const version of metadata.versions) await deleteFromS3(...)`
DeleteS3(r, s3ok) ==
    /\ req[r].op = "delete" /\ req[r].pc = "s3"
    /\ LET q == req[r]
       IN  /\ IF s3ok
              THEN objects' = objects \ {q.metadata.versions[q.i].s3Key}
                   /\ UNCHANGED failed
              ELSE failed' = TRUE /\ UNCHANGED objects
           /\ req' = [req EXCEPT ![r].i = q.i + 1,
                                 ![r].pc = IF q.i = Len(q.metadata.versions)
                                           THEN "meta" ELSE "s3"]
    /\ resp' = NoResp
    /\ UNCHANGED <<metadataStore, users, nextFileId, created>>
    /\ UnchangedShare /\ UnchangedFolder

\* metadataClient.deleteMetadata -> DELETE /api/metadata/:fileId, then the response
DeleteMeta(r) ==
    /\ req[r].op = "delete" /\ req[r].pc = "meta"
    /\ LET q == req[r]
       IN  IF hung \/ q.fileId \notin DOMAIN metadataStore
           THEN /\ resp' = Reply("delete", 500)
                /\ failed' = TRUE
                /\ UNCHANGED metadataStore
           ELSE /\ metadataStore' = MapDelete(metadataStore, q.fileId)
                /\ resp' = [op |-> "delete", status |-> 200, fileId |-> q.fileId,
                            deletedVersions |-> Len(q.metadata.versions)]
                /\ UNCHANGED failed
    /\ req' = [req EXCEPT ![r] = Idle]
    /\ UNCHANGED <<objects, users, nextFileId, created>>
    /\ UnchangedShare /\ UnchangedFolder

\* ----------------------------------------------------------------- SpecSeq
\* One client sends upload and replace-version requests one after another
\* (connection r1 only); u2 is a second user who owns nothing.
SeqUpload ==
    \E name \in {"a"} : UploadStart("r1", "u1", name, 1, NULL, FALSE)
SeqReplace ==
    \E u \in Users, f \in FileIds : ReplaceGet("r1", u, f, "a", 1)
SeqUploadPut == UploadPut("r1")
SeqUploadCreate == UploadCreate("r1")
SeqReplacePut == ReplacePut("r1")
SeqReplaceEvict == \E s3ok \in BOOLEAN : ReplaceEvict("r1", s3ok)
SeqReplaceUpdate == ReplaceUpdate("r1")

NextSeq ==
    \/ SeqUpload
    \/ SeqReplace
    \/ SeqUploadPut
    \/ SeqUploadCreate
    \/ SeqReplacePut
    \/ SeqReplaceEvict
    \/ SeqReplaceUpdate
SpecSeq == Init /\ [][NextSeq]_vars

\* number of completed upload and replace-version requests to file f
Uploads(f) ==
    LET S[v \in 0..(MaxVersionNum + 1)] ==
            IF v = 0 THEN 0 ELSE S[v - 1] + created[f][v]
    IN  S[MaxVersionNum + 1]

C1_Window(f) ==
    LET k == Uploads(f)
        m == metadataStore[f]
        lo == IF k - 2 > 1 THEN k - 2 ELSE 1
    IN  /\ k >= 1
        /\ m.currentVersion = k
        /\ Len(m.versions) = (IF k < MAX_VERSIONS THEN k ELSE MAX_VERSIONS)
        /\ \A i \in 1..Len(m.versions) : m.versions[i].version = lo + i - 1

C1_Step ==
    /\ \A f \in DOMAIN metadataStore' : C1_Window(f)'
    /\ (resp'.op = "replace" /\ resp'.status = 200 /\ resp'.deletedVersion # <<>>) =>
          LET before == VersionNumbers(metadataStore[resp'.fileId].versions)
              after == VersionNumbers(metadataStore'[resp'.fileId].versions)
          IN  /\ resp'.deletedVersion[1].version = Min(before)
              /\ before \ after = {Min(before)}

\* C1: after an upload and k-1 replace-version requests made one after another,
\* the file retains exactly the versions max(1,k-2)..k in ascending order,
\* currentVersion is k, and every eviction removes the smallest retained number.
C1_RetainedWindow == [][C1_Step]_vars

\* Scenario A: the fourth upload to a file has evicted version 1
C1_Witness ==
    /\ resp.op = "replace" /\ resp.status = 200
    /\ resp.currentVersion = 4
    /\ resp.deletedVersion # <<>>
    /\ VersionNumbers(metadataStore[resp.fileId].versions) = {2, 3, 4}

\* ---------------------------------------------------------------- SpecFile
\* Two connections of the owner of one file: upload, replace-version and
\* delete-file requests interleave at every await; every S3 call succeeds.
FileUpload ==
    \E r \in Slots : nextFileId = 1 /\ UploadStart(r, "u1", "a", 1, NULL, FALSE)
FileUploadPut == \E r \in Slots : UploadPut(r)
FileUploadCreate == \E r \in Slots : UploadCreate(r)
FileReplace == \E r \in Slots : ReplaceGet(r, "u1", 1, "a", 1)
FileReplacePut == \E r \in Slots : ReplacePut(r)
FileReplaceEvict == \E r \in Slots : ReplaceEvict(r, TRUE)
FileReplaceUpdate == \E r \in Slots : ReplaceUpdate(r)
FileDelete == \E r \in Slots : DeleteGet(r, "u1", 1)
FileDeleteS3 == \E r \in Slots : DeleteS3(r, TRUE)
FileDeleteMeta == \E r \in Slots : DeleteMeta(r)

NextFile ==
    \/ FileUpload
    \/ FileUploadPut
    \/ FileUploadCreate
    \/ FileReplace
    \/ FileReplacePut
    \/ FileReplaceEvict
    \/ FileReplaceUpdate
    \/ FileDelete
    \/ FileDeleteS3
    \/ FileDeleteMeta
SpecFile == Init /\ [][NextFile]_vars

C4_Step ==
    /\ \A f \in FileIds, v \in 1..(MaxVersionNum + 1) : created'[f][v] <= 1
    /\ \A f \in (DOMAIN metadataStore) \cap (DOMAIN metadataStore') :
          metadataStore'[f].currentVersion >= metadataStore[f].currentVersion

\* C4: under any interleaving of replace-version requests to one file, no two
\* completed requests create the same version number (no lost update) and
\* currentVersion never decreases.
C4_NoLostUpdate == [][C4_Step]_vars

\* C5: whenever no request is in flight and no collaborator call has failed,
\* every retained version names a live object, distinct retained versions have
\* distinct keys, and no object is left of an evicted version (a version older
\* than the oldest retained one).
C5_RetainedLive ==
    (NoInflight /\ ~failed) =>
        \A f \in DOMAIN metadataStore :
            LET versions == metadataStore[f].versions
            IN  /\ \A i \in 1..Len(versions) : versions[i].s3Key \in objects
                /\ \A i, j \in 1..Len(versions) :
                      i # j => versions[i].s3Key # versions[j].s3Key
                /\ \A key \in objects :
                      key[2] = f => key[3] >= Min(VersionNumbers(versions))

\* ------------------------------------------- metadata service: folder tree
\* The handlers of mock-metadata-service.js are synchronous: each is one step.
UnchangedFile == UNCHANGED <<objects, users, req, nextFileId, created, failed>>

StoredFolders == DOMAIN folderStore

\* a slip in isDescendant: only the direct parent is compared, the walk is lost
isDescendant_parentOnly(folderId, targetId) ==
    IF targetId \in StoredFolders /\ folderStore[targetId].parentId = folderId
    THEN "true" ELSE "false"

\* isDescendant(folderId, targetId): the while loop over parentId links.
\* The walk is deterministic, so once it has looked at more folders than are
\* stored it is repeating itself and never returns: "loop".
isDescendant(folderId, targetId) ==
    LET walk[i \in 0..Cardinality(StoredFolders)] ==
            \* the folder id `current` stands on after i turns, or the verdict
            IF i = 0 THEN targetId ELSE
            LET c == walk[i - 1]
            IN  IF c \in {"true", "false"} THEN c
                ELSE IF c \notin StoredFolders THEN "false"
                ELSE IF folderStore[c].parentId = folderId THEN "true"
                ELSE folderStore[c].parentId
        last == walk[Cardinality(StoredFolders)]
    IN  IF last \in {"true", "false"} THEN last
        ELSE IF last \notin StoredFolders THEN "false"
        ELSE IF folderStore[last].parentId = folderId THEN "true"
        ELSE "loop"

\* getAllDescendants(folderId): the recursion over child folders. A chain of
\* children longer than the number of stored folders repeats a folder, and the
\* recursion then never ends: the call stack overflows (RangeError).
getAllDescendants(folderId) ==
    LET n == Cardinality(StoredFolders)
        Children(S) == {f \in StoredFolders : folderStore[f].parentId \in S}
        level[i \in 0..n] ==
            IF i = 0 THEN Children({folderId}) ELSE Children(level[i - 1])
    IN  [overflow |-> level[n] # {},
         ids |-> UNION {level[i] : i \in 0..n}]

\* POST /api/folders
CreateFolder(folderId, userId, parentId) ==
    /\ ~hung
    /\ folderStore' = MapSet(folderStore, folderId,
                             [userId |-> userId, parentId |-> parentId])
    /\ resp' = Reply("createFolder", 200)
    /\ UNCHANGED <<metadataStore, hung>>
    /\ UnchangedFile /\ UnchangedShare

\* POST /api/folders/:folderId/move
MoveFolder(folderId, targetFolderId) ==
    /\ ~hung
    /\ IF folderId \notin StoredFolders
       THEN resp' = Reply("moveFolder", 404) /\ UNCHANGED <<folderStore, hung>>
       ELSE IF folderId = targetFolderId
       THEN resp' = Reply("moveFolder", 400) /\ UNCHANGED <<folderStore, hung>>
       ELSE IF isDescendant(folderId, targetFolderId) = "loop"
       THEN hung' = TRUE /\ resp' = NoResp /\ UNCHANGED folderStore
       ELSE IF isDescendant(folderId, targetFolderId) = "true"
       THEN resp' = Reply("moveFolder", 400) /\ UNCHANGED <<folderStore, hung>>
       ELSE IF /\ targetFolderId # ROOT
               /\ \/ targetFolderId \notin StoredFolders
                  \/ folderStore[targetFolderId].userId # folderStore[folderId].userId
       THEN resp' = Reply("moveFolder", 403) /\ UNCHANGED <<folderStore, hung>>
       ELSE /\ folderStore' = [folderStore EXCEPT ![folderId].parentId = targetFolderId]
            /\ resp' = Reply("moveFolder", 200)
            /\ UNCHANGED hung
    /\ UNCHANGED metadataStore
    /\ UnchangedFile /\ UnchangedShare

\* `file.folderId ? String(file.folderId) : 'root'`
FileFolderId(file) == IF file.folderId = NULL THEN ROOT ELSE file.folderId

\* DELETE /api/folders/:folderId
DeleteFolder(folderId) ==
    /\ ~hung
    /\ LET d == getAllDescendants(folderId)
           all == {folderId} \cup d.ids
       IN  IF d.overflow
           THEN /\ resp' = Reply("deleteFolder", 500)
                /\ UNCHANGED <<metadataStore, folderStore>>
           ELSE /\ metadataStore' =
                      [f \in {g \in DOMAIN metadataStore :
                                 FileFolderId(metadataStore[g]) \notin all}
                          |-> metadataStore[f]]
                /\ folderStore' = [f \in StoredFolders \ all |-> folderStore[f]]
                /\ resp' = Reply("deleteFolder", 200)
    /\ UNCHANGED hung
    /\ UnchangedFile /\ UnchangedShare

\* ---------------------------------------------------------------- SpecTree
\* Clients of the metadata service create, move and delete folders.
TreeCreate ==
    \E f \in FolderIds, u \in Users, p \in FolderIds \cup {ROOT} : CreateFolder(f, u, p)
TreeMove ==
    \E f \in FolderIds, t \in FolderIds \cup {ROOT} : MoveFolder(f, t)
TreeDelete ==
    \E f \in FolderIds \cup {ROOT} : DeleteFolder(f)

NextTree == TreeCreate \/ TreeMove \/ TreeDelete
SpecTree == Init /\ [][NextTree]_vars

\* the folders met by following parentId links upward from folder f
AncestorsOf(f) ==
    LET up[i \in 0..Cardinality(StoredFolders)] ==
            IF i = 0 THEN {folderStore[f].parentId}
            ELSE up[i - 1] \cup
                 {folderStore[g].parentId : g \in up[i - 1] \cap StoredFolders}
    IN  up[Cardinality(StoredFolders)]

\* b is a descendant of a: b is stored and a is met going up from b
DescendantOf(a, b) == b \in StoredFolders /\ a \in AncestorsOf(b)

\* C2: in every state reached through createFolder, moveFolder and
\* deleteFolderRecursive requests, no folder is its own ancestor.
C2_NoFolderIsOwnAncestor == \A f \in StoredFolders : f \notin AncestorsOf(f)

\* C3: moveFolder(A, B) is rejected whenever B is a descendant of A, and
\* moveFolder(F, F) is rejected for every F; a rejected move changes no parentId.
C3_Step ==
    \A a \in FolderIds, b \in FolderIds \cup {ROOT} :
        (MoveFolder(a, b) /\ (a = b \/ DescendantOf(a, b))) =>
            /\ resp'.op = "moveFolder" /\ resp'.status \in {400, 404}
            /\ folderStore' = folderStore
C3_CycleMoveRejected == [][C3_Step]_vars

\* Scenario B: a move of a folder into its own descendant has just been refused
C3_Witness ==
    /\ resp = Reply("moveFolder", 400)
    /\ \E a, b \in StoredFolders : a # b /\ DescendantOf(a, b)
    /\ C2_NoFolderIsOwnAncestor

\* -------------------------------------------------------------- SpecFolder
\* One user keeps files in folders: uploads through the file-management
\* service (connection r1), folder requests straight to the metadata service.
FolderCreate ==
    \E f \in FolderIds, p \in FolderIds \cup {ROOT} : CreateFolder(f, "u1", p)
FolderMove ==
    \E f \in FolderIds, t \in FolderIds \cup {ROOT} : MoveFolder(f, t)
FolderDelete ==
    \E f \in FolderIds \cup {ROOT} : DeleteFolder(f)
FolderUpload ==
    \E d \in FolderIds \cup {NULL} : UploadStart("r1", "u1", "a", 1, d, FALSE)
FolderUploadPut == UploadPut("r1")
FolderUploadCreate == UploadCreate("r1")

NextFolder ==
    \/ FolderCreate
    \/ FolderMove
    \/ FolderDelete
    \/ FolderUpload
    \/ FolderUploadPut
    \/ FolderUploadCreate
SpecFolder == Init /\ [][NextFolder]_vars

\* F, and every stored folder whose parentId chain reaches F
Subtree(F) == {F} \cup {g \in StoredFolders : F \in AncestorsOf(g)}

\* the files whose folderId is in S (a file without folderId is at the root)
FilesIn(S) ==
    {f \in DOMAIN metadataStore :
        (IF metadataStore[f].folderId = NULL THEN ROOT
         ELSE metadataStore[f].folderId) \in S}

\* C6: deleteFolderRecursive(F) removes exactly F, the folders whose parentId
\* chain reaches F and the files in those folders; every other folder record
\* and file record is left unchanged.
C6_Step ==
    \A F \in FolderIds \cup {ROOT} :
        DeleteFolder(F) =>
            /\ folderStore' = [g \in StoredFolders \ Subtree(F) |-> folderStore[g]]
            /\ metadataStore' =
                   [f \in (DOMAIN metadataStore) \ FilesIn(Subtree(F))
                       |-> metadataStore[f]]
C6_DeleteExactlySubtree == [][C6_Step]_vars

\* C7: after deleteFolderRecursive(P) has answered 200, no stored object of a
\* retained version of a file that was inside P's subtree is left in the bucket.
C7_Step ==
    \A P \in StoredFolders :
        (DeleteFolder(P) /\ resp'.status = 200) =>
            \A f \in FilesIn(Subtree(P)) :
                \A i \in 1..Len(metadataStore[f].versions) :
                    metadataStore[f].versions[i].s3Key \notin objects'
C7_SubtreeObjectsDeleted == [][C7_Step]_vars

\* ------------------------------------------------------------ share lambda
\* The lambda's awaits touch the metadata service once (POST /share) and the
\* append-only share table; each invocation is modelled as one step, taken at
\* the moment of its metadata read.
NoToken == [signed |-> FALSE, none |-> TRUE]

\* authenticate of the metadata service, then GET /api/metadata/:fileId
MetadataGetStatus(hasAuthorization, fileId) ==
    IF hung THEN 504
    ELSE IF ~hasAuthorization THEN 401
    ELSE IF fileId \notin DOMAIN metadataStore THEN 404
    ELSE 200

\* jwt.sign(payload, JWT_SECRET, {expiresIn: "1d"})
jwtSign(payload) ==
    [signed |-> TRUE, none |-> FALSE, fileId |-> payload.fileId,
     filename |-> payload.filename, version |-> payload.version,
     userId |-> payload.userId, exp |-> now + TokenTTL]

\* a slip in jwt.verify: the expiry is not looked at
jwtVerify_ignoreExpiry(token) == token.signed

\* jwt.verify(token, JWT_SECRET): signature, then exp
jwtVerify(token) == token.signed /\ now < token.exp

\* the live-metadata policy of the other handler: the key of the current version
RedeemKey_current(decoded) ==
    IF decoded.fileId \in DOMAIN metadataStore
    THEN metadataStore[decoded.fileId].s3Key
    ELSE buildS3Key(decoded.userId, decoded.fileId, decoded.version, decoded.filename)

\* `${userId}/${fileId}/v${version}/${filename}` from the decoded token
RedeemKey(decoded) ==
    buildS3Key(decoded.userId, decoded.fileId, decoded.version, decoded.filename)

\* a slip in GET /share/{publicId}: the share table is not consulted
ShareExists_any(publicId) == TRUE

\* `shareRes.Item` of the GetCommand
ShareExists(publicId) == publicId \in DOMAIN shareTable

\* a slip in POST /share: the owner comparison is left out
OwnsFile_any(metadata, userId) == TRUE

\* `metadata.userId !== userId` of POST /share
OwnsFile(metadata, userId) == metadata.userId = userId

\* POST /share (signed variant)
IssueShare(userId, fileId, hasAuthorization) ==
    /\ LET status == MetadataGetStatus(hasAuthorization, fileId)
       IN  IF status # 200
           THEN /\ resp' = Reply("share", 500)
                /\ UNCHANGED <<shareTable, minted, nextPublicId>>
           ELSE LET metadata == metadataStore[fileId]
                    publicId == nextPublicId
                    token == jwtSign([fileId |-> fileId, filename |-> metadata.filename,
                                      version |-> metadata.currentVersion,
                                      userId |-> metadata.userId])
                    current == CHOOSE i \in 1..Len(metadata.versions) :
                                   metadata.versions[i].version = metadata.currentVersion
                IN  IF ~OwnsFile(metadata, userId)
                    THEN /\ resp' = Reply("share", 403)
                         /\ UNCHANGED <<shareTable, minted, nextPublicId>>
                    ELSE /\ shareTable' = MapSet(shareTable, publicId,
                                [fileId |-> fileId, ownerId |-> userId, createdAt |-> now])
                         /\ minted' = MapSet(minted, publicId,
                                [token |-> token,
                                 stored |-> metadata.versions[current].s3Key])
                         /\ nextPublicId' = nextPublicId + 1
                         /\ resp' = [op |-> "share", status |-> 200,
                                     publicId |-> publicId,
                                     url |-> <<publicId, token>>]
    /\ UNCHANGED <<metadataStore, folderStore, hung, now>>
    /\ UnchangedFile

\* statusCode of GET /share/{publicId}?token=... (signed variant)
RedeemStatus(publicId, token) ==
    IF ~ShareExists(publicId) THEN 404
    ELSE IF token = NoToken THEN 401
    ELSE IF ~jwtVerify(token) THEN 403
    ELSE 302

\* GET /share/{publicId}?token=... (signed variant)
Redeem(publicId, token) ==
    /\ resp' = [op |-> "redeem", publicId |-> publicId, token |-> token,
                status |-> RedeemStatus(publicId, token),
                key |-> IF RedeemStatus(publicId, token) = 302
                        THEN <<RedeemKey(token)>> ELSE <<>>]
    /\ UNCHANGED <<metadataStore, folderStore, hung, shareTable, minted,
                   nextPublicId, now>>
    /\ UnchangedFile

\* GET /share/{publicId} (live-metadata variant): the metadata service is
\* called with an empty Authorization header
RedeemLive(publicId) ==
    /\ resp' = [op |-> "redeemLive",
                status |-> IF publicId \notin DOMAIN shareTable THEN 404
                           ELSE IF MetadataGetStatus(FALSE, shareTable[publicId].fileId) # 200
                           THEN 500
                           ELSE 302]
    /\ UNCHANGED <<metadataStore, folderStore, hung, shareTable, minted,
                   nextPublicId, now>>
    /\ UnchangedFile

\* a day passes
Tick ==
    /\ now < MaxTime
    /\ now' = now + 1
    /\ resp' = NoResp
    /\ UNCHANGED <<metadataStore, folderStore, hung, shareTable, minted, nextPublicId>>
    /\ UnchangedFile

\* --------------------------------------------------------------- SpecShare
\* The owner u1 keeps one file (requests one after another on connection r1)
\* and shares it; anyone redeems, with the token of the link, without a token
\* or with a token that the lambda did not sign.
MintedTokens == {minted[p].token : p \in DOMAIN minted}
Forged(t) == [t EXCEPT !.signed = FALSE]
Presented == {NoToken} \cup MintedTokens \cup {Forged(t) : t \in MintedTokens}

ShareUpload == nextFileId = 1 /\ UploadStart("r1", "u1", "a", 1, NULL, FALSE)
ShareUploadPut == UploadPut("r1")
ShareUploadCreate == UploadCreate("r1")
ShareReplace == \E name \in Filenames : ReplaceGet("r1", "u1", 1, name, 1)
ShareReplacePut == ReplacePut("r1")
ShareReplaceEvict == ReplaceEvict("r1", TRUE)
ShareReplaceUpdate == ReplaceUpdate("r1")
ShareDelete == DeleteGet("r1", "u1", 1)
ShareDeleteS3 == DeleteS3("r1", TRUE)
ShareDeleteMeta == DeleteMeta("r1")
ShareIssue ==
    /\ nextPublicId <= MaxShares
    /\ \E u \in Users : IssueShare(u, 1, TRUE)
ShareRedeem == \E p \in PublicIds, t \in Presented : Redeem(p, t)
ShareRedeemLive == \E p \in PublicIds : RedeemLive(p)
\* time matters only once a token exists
ShareTick == DOMAIN minted # {} /\ Tick

NextShare ==
    \/ ShareUpload
    \/ ShareUploadPut
    \/ ShareUploadCreate
    \/ ShareReplace
    \/ ShareReplacePut
    \/ ShareReplaceEvict
    \/ ShareReplaceUpdate
    \/ ShareDelete
    \/ ShareDeleteS3
    \/ ShareDeleteMeta
    \/ ShareIssue
    \/ ShareRedeem
    \/ ShareRedeemLive
    \/ ShareTick
SpecShare == Init /\ [][NextShare]_vars

C10_DeletedFileNotFound ==
    (/\ resp.op = "redeem"
     /\ resp.publicId \in DOMAIN minted
     /\ resp.token = minted[resp.publicId].token
     /\ now < resp.token.exp
     /\ shareTable[resp.publicId].fileId \notin DOMAIN metadataStore) =>
        resp.status = 404

\* C11: issuing a share for an existing file answers 403 to a requester who is
\* not the owner, writing no share record and minting no token; for the owner
\* it writes exactly one new record {fileId, ownerId = requester, createdAt}
\* and returns its publicId in a URL that carries a signed token.
C11_Step ==
    \A u \in Users, f \in FileIds :
        (IssueShare(u, f, TRUE) /\ MetadataGetStatus(TRUE, f) = 200) =>
            IF metadataStore[f].userId # u
            THEN /\ resp' = Reply("share", 403)
                 /\ shareTable' = shareTable
                 /\ minted' = minted
            ELSE /\ resp'.status = 200
                 /\ \E p \in PublicIds \ DOMAIN shareTable :
                        /\ DOMAIN shareTable' = DOMAIN shareTable \cup {p}
                        /\ \A q \in DOMAIN shareTable : shareTable'[q] = shareTable[q]
                        /\ shareTable'[p] =
                               [fileId |-> f, ownerId |-> u, createdAt |-> now]
                        /\ resp'.publicId = p
                        /\ resp'.url[1] = p
                        /\ resp'.url[2].signed
                        /\ resp'.url[2].fileId = f
C13_UniformFailure ==
    \A p1, p2 \in PublicIds, t1, t2 \in Presented :
        (RedeemStatus(p1, t1) # 302 /\ RedeemStatus(p2, t2) # 302) =>
            RedeemStatus(p1, t1) = RedeemStatus(p2, t2)

\* --------------------------------------------------------------- SpecQuota
\* The quota guard on user records with any usage between nothing and the
\* whole quota: the guard called on its own, and called by upload and
\* replace-version requests of u1 on one file (connection r1).
InitQuota ==
    /\ metadataStore = <<>>
    /\ folderStore = <<>>
    /\ objects = {}
    /\ shareTable = <<>>
    /\ minted = <<>>
    /\ users \in [Users -> {[storageQuota |-> StorageQuota, storageUsed |-> x] :
                              x \in 0..StorageQuota}]
    /\ req = [r \in Slots |-> Idle]
    /\ resp = NoResp
    /\ nextFileId = 1
    /\ nextPublicId = 1
    /\ now = 0
    /\ created = [f \in FileIds |-> [v \in 1..(MaxVersionNum + 1) |-> 0]]
    /\ failed = FALSE
    /\ hung = FALSE

\* await authClient.checkStorageQuota(req.token, requiredSpace): returns, or
\* throws the 413 error
QuotaCheck(u, requiredSpace) ==
    /\ resp' = [op |-> "quota", user |-> u, requiredSpace |-> requiredSpace,
                status |-> IF checkStorageQuota(u, requiredSpace) THEN 200 ELSE 413]
    /\ UNCHANGED <<metadataStore, objects, users, req, nextFileId, created, failed>>
    /\ UnchangedShare /\ UnchangedFolder

QuotaGuard == \E u \in Users, n \in Sizes : QuotaCheck(u, n)
QuotaUpload ==
    \E size \in Sizes :
        nextFileId = 1 /\ UploadStart("r1", "u1", "a", size, NULL, FALSE)
QuotaUploadPut == UploadPut("r1")
QuotaUploadCreate == UploadCreate("r1")
QuotaReplace == \E size \in Sizes : ReplaceGet("r1", "u1", 1, "a", size)
QuotaReplacePut == ReplacePut("r1")
QuotaReplaceEvict == ReplaceEvict("r1", TRUE)
QuotaReplaceUpdate == ReplaceUpdate("r1")

NextQuota ==
    \/ QuotaGuard
    \/ QuotaUpload
    \/ QuotaUploadPut
    \/ QuotaUploadCreate
    \/ QuotaReplace
    \/ QuotaReplacePut
    \/ QuotaReplaceEvict
    \/ QuotaReplaceUpdate
SpecQuota == InitQuota /\ [][NextQuota]_vars

\* C14: the quota guard refuses a request (413) exactly when the quota minus
\* the usage is smaller than the bytes asked for; a request for exactly the
\* remaining bytes is admitted.
C14_QuotaGuard ==
    resp.op = "quota" =>
        LET remaining == users[resp.user].storageQuota - users[resp.user].storageUsed
        IN  /\ (resp.status = 413) <=> (remaining < resp.requiredSpace)
            /\ (resp.status = 200) <=> (remaining >= resp.requiredSpace)

\* Scenario E: a request for exactly the remaining budget was admitted
C14_Witness ==
    /\ resp.op = "quota" /\ resp.status = 200
    /\ resp.requiredSpace =
           users[resp.user].storageQuota - users[resp.user].storageUsed

\* C15: a replace-version request of the owner is refused with 413 exactly
\* when the new size exceeds the current size by more than the remaining
\* quota; a replacement of equal or smaller size is always let through.
C15_Step ==
    \A size \in Sizes :
        (ReplaceGet("r1", "u1", 1, "a", size) /\ 1 \in DOMAIN metadataStore) =>
            LET increase == size - metadataStore[1].size
                remaining == users["u1"].storageQuota - users["u1"].storageUsed
            IN  /\ (resp' = Reply("replace", 413)) <=>
                       (increase > 0 /\ remaining < increase)
                /\ (resp' # Reply("replace", 413)) =>
                       (req'["r1"].op = "replace" /\ req'["r1"].size = size)
C15_NetIncreaseOnly == [][C15_Step]_vars

\* a replacement no larger than the current version has passed the quota
\* step although the owner's remaining quota is smaller than the new file
C15_Witness ==
    /\ req["r1"].op = "replace" /\ req["r1"].pc = "put"
    /\ req["r1"].size <= req["r1"].metadata.size
    /\ users["u1"].storageQuota - users["u1"].storageUsed < req["r1"].size

\* -------------------------------------------------------------- SpecUpload
\* Users upload new files one after another (connection r1); nothing is
\* replaced or deleted.
UpUpload ==
    \E u \in Users, name \in Filenames, size \in Sizes :
        UploadStart("r1", u, name, size, NULL, FALSE)
UpUploadPut == UploadPut("r1")
UpUploadCreate == UploadCreate("r1")

NextUpload ==
    \/ UpUpload
    \/ UpUploadPut
    \/ UpUploadCreate
SpecUpload == Init /\ [][NextUpload]_vars

\* bytes of the uploads of user u that were admitted and completed, among
\* the files with ids in F
RECURSIVE AdmittedBytes(_, _)
AdmittedBytes(u, F) ==
    IF F = {} THEN 0
    ELSE LET f == CHOOSE x \in F : TRUE
         IN  (IF f \in DOMAIN metadataStore /\ metadataStore[f].userId = u
              THEN metadataStore[f].size ELSE 0)
             + AdmittedBytes(u, F \ {f})

\* C16: the bytes admitted for one owner by uploads executed one after another
\* never exceed the owner's quota.
C16_QuotaCeiling ==
    \A u \in Users : AdmittedBytes(u, FileIds) <= users[u].storageQuota

\* --------------------------- file-management: GET /:fileId/download, /versions
\* The version parameter of the query string is <<>> when absent and <<n>>
\* when it parses to the integer n.
\* validateVersionParam: an absent parameter and a number from 1 on pass
validateVersionParam(version) == version = <<>> \/ version[1] >= 1

\* a slip in findVersion: the parameter is taken as a position in the list
findVersion_byIndex(versions, versionNumber) ==
    IF versionNumber \in 1..Len(versions) THEN <<versions[versionNumber]>> ELSE <<>>

\* versionService.findVersion: <<record>>, or <<>> for undefined
findVersion(versions, versionNumber) ==
    IF \E i \in 1..Len(versions) : versions[i].version = versionNumber
    THEN <<versions[CHOOSE i \in 1..Len(versions) :
                        /\ versions[i].version = versionNumber
                        /\ \A j \in 1..(i - 1) : versions[j].version # versionNumber]>>
    ELSE <<>>

\* versionService.formatVersionsResponse
formatVersionsResponse(versions, currentVersion) ==
    [i \in 1..Len(versions) |->
        [version |-> versions[i].version, size |-> versions[i].size,
         isCurrent |-> versions[i].version = currentVersion]]

\* what is sent for a request that produced no URL and no list
Refused(op, status, u, fileId, version) ==
    [op |-> op, status |-> status, user |-> u, fileId |-> fileId,
     asked |-> version, key |-> <<>>, versions |-> <<>>]

\* GET /:fileId/download?version=...
Download(u, fileId, version) ==
    /\ resp' =
         IF ~validateVersionParam(version)
         THEN Refused("download", 400, u, fileId, version)
         ELSE IF hung THEN Refused("download", 500, u, fileId, version)
         ELSE IF fileId \notin DOMAIN metadataStore
         THEN Refused("download", 404, u, fileId, version)
         ELSE LET metadata == metadataStore[fileId]
                  requestedVersion == findVersion(metadata.versions, version[1])
              IN  IF ~checkFileAccess(metadata, u)
                  THEN Refused("download", 403, u, fileId, version)
                  ELSE IF version = <<>>
                  THEN [op |-> "download", status |-> 200, user |-> u,
                        fileId |-> fileId, asked |-> version,
                        key |-> <<metadata.s3Key>>, versions |-> <<>>,
                        version |-> metadata.currentVersion, size |-> metadata.size]
                  ELSE IF requestedVersion = <<>>
                  THEN Refused("download", 404, u, fileId, version)
                  ELSE [op |-> "download", status |-> 200, user |-> u,
                        fileId |-> fileId, asked |-> version,
                        key |-> <<requestedVersion[1].s3Key>>, versions |-> <<>>,
                        version |-> requestedVersion[1].version,
                        size |-> requestedVersion[1].size]
    /\ UNCHANGED <<metadataStore, objects, users, req, nextFileId, created, failed>>
    /\ UnchangedShare /\ UnchangedFolder

\* GET /:fileId/versions
ListVersions(u, fileId) ==
    /\ resp' =
         IF hung THEN Refused("versions", 500, u, fileId, <<>>)
         ELSE IF fileId \notin DOMAIN metadataStore
         THEN Refused("versions", 404, u, fileId, <<>>)
         ELSE LET metadata == metadataStore[fileId]
              IN  IF ~checkFileAccess(metadata, u)
                  THEN Refused("versions", 403, u, fileId, <<>>)
                  ELSE [op |-> "versions", status |-> 200, user |-> u,
                        fileId |-> fileId, asked |-> <<>>, key |-> <<>>,
                        currentVersion |-> metadata.currentVersion,
                        versions |-> formatVersionsResponse(metadata.versions,
                                                            metadata.currentVersion)]
    /\ UNCHANGED <<metadataStore, objects, users, req, nextFileId, created, failed>>
    /\ UnchangedShare /\ UnchangedFolder

\* -------------------------------------------------------------- SpecAccess
\* u1 uploads one file, private or public; both users send replace-version,
\* delete, download and list-versions requests for it, one after another
\* (connection r1).
VersionParams == {<<>>} \cup {<<n>> : n \in 0..MaxVersionNum}

AccUpload ==
    \E isPublic \in BOOLEAN :
        nextFileId = 1 /\ UploadStart("r1", "u1", "a", 1, NULL, isPublic)
AccUploadPut == UploadPut("r1")
AccUploadCreate == UploadCreate("r1")
AccReplace == \E u \in Users, size \in {1, 2} : ReplaceGet("r1", u, 1, "a", size)
AccReplacePut == ReplacePut("r1")
AccReplaceEvict == ReplaceEvict("r1", TRUE)
AccReplaceUpdate == ReplaceUpdate("r1")
AccDelete == \E u \in Users : DeleteGet("r1", u, 1)
AccDeleteS3 == DeleteS3("r1", TRUE)
AccDeleteMeta == DeleteMeta("r1")
AccDownload == \E u \in Users, v \in VersionParams : Download(u, 1, v)
AccListVersions == \E u \in Users : ListVersions(u, 1)

NextAccess ==
    \/ AccUpload
    \/ AccUploadPut
    \/ AccUploadCreate
    \/ AccReplace
    \/ AccReplacePut
    \/ AccReplaceEvict
    \/ AccReplaceUpdate
    \/ AccDelete
    \/ AccDeleteS3
    \/ AccDeleteMeta
    \/ AccDownload
    \/ AccListVersions
SpecAccess == Init /\ [][NextAccess]_vars

\* C17: a download or list-versions request for an existing file is refused
\* with 403 exactly when the requester is neither the owner nor is the file
\* public; a refused request carries no key and no version list, and a
\* permitted list-versions request is answered with the list.
C17_ReadAccess ==
    (/\ resp.op \in {"download", "versions"}
     /\ resp.status # 400
     /\ resp.fileId \in DOMAIN metadataStore) =>
        LET file == metadataStore[resp.fileId]
            canRead == resp.user = file.userId \/ file.isPublic
        IN  /\ (resp.status = 403) <=> ~canRead
            /\ resp.status = 403 => (resp.key = <<>> /\ resp.versions = <<>>)
            /\ (canRead /\ resp.op = "versions") =>
                   (resp.status = 200 /\ Len(resp.versions) = Len(file.versions))
            /\ (canRead /\ resp.op = "download") => resp.status \in {200, 404}

\* a user who is not the owner was refused a private file
C17_Witness ==
    /\ resp.op = "download" /\ resp.status = 403
    /\ resp.fileId \in DOMAIN metadataStore
    /\ resp.user # metadataStore[resp.fileId].userId
    /\ ~metadataStore[resp.fileId].isPublic

\* C18: a replace-version or delete request for an existing file by a user
\* who is not its owner is answered 403, public file or not, and changes
\* nothing: no request is left in flight, no object is put or deleted and the
\* file record stays as it was.
C18_Step ==
    \A u \in Users, size \in Sizes :
        (/\ ReplaceGet("r1", u, 1, "a", size) \/ DeleteGet("r1", u, 1)
         /\ 1 \in DOMAIN metadataStore
         /\ metadataStore[1].userId # u) =>
            /\ resp' \in {Reply("replace", 403), Reply("delete", 403)}
            /\ req' = req
            /\ objects' = objects
            /\ metadataStore' = metadataStore
C18_WriteOwnerOnly == [][C18_Step]_vars

\* a write request on a public file by someone else has been refused
C18_Witness ==
    /\ resp \in {Reply("replace", 403), Reply("delete", 403)}
    /\ 1 \in DOMAIN metadataStore
    /\ metadataStore[1].isPublic
    /\ metadataStore[1].currentVersion > 1

\* C19: a permitted download without a version parameter gives the key and
\* size of the record numbered currentVersion; with parameter n >= 1 it gives
\* the retained record numbered n, and 404 with no key when no retained
\* record has number n.
C19_ResolveVersion ==
    (/\ resp.op = "download"
     /\ resp.status \in {200, 404}
     /\ resp.fileId \in DOMAIN metadataStore) =>
        LET file == metadataStore[resp.fileId]
            n == IF resp.asked = <<>> THEN file.currentVersion ELSE resp.asked[1]
            hits == {i \in 1..Len(file.versions) : file.versions[i].version = n}
        IN  IF hits = {}
            THEN resp.asked # <<>> /\ resp.status = 404 /\ resp.key = <<>>
            ELSE /\ resp.status = 200
                 /\ \E i \in hits :
                        /\ resp.key = <<file.versions[i].s3Key>>
                        /\ resp.size = file.versions[i].size
                        /\ resp.version = n

\* an evicted version was asked for and refused
C19_Witness ==
    /\ resp.op = "download" /\ resp.status = 404
    /\ resp.fileId \in DOMAIN metadataStore
    /\ resp.asked # <<>>
    /\ resp.asked[1] >= 1
    /\ resp.asked[1] < Min(VersionNumbers(metadataStore[resp.fileId].versions))

\* ------------------------------- metadata service: POST /api/files/:fileId/move
\* The handler never looks at who sent the request: `authenticate` only asks
\* for an Authorization header, and userId is read from the file itself.
MoveFile(requester, fileId, targetFolderId) ==
    /\ ~hung
    /\ IF fileId \notin DOMAIN metadataStore
       THEN /\ resp' = Reply("moveFile", 404)
            /\ UNCHANGED metadataStore
       ELSE LET file == metadataStore[fileId]
                userId == file.userId
            IN  IF targetFolderId # ROOT /\ targetFolderId \notin StoredFolders
                THEN /\ resp' = Reply("moveFile", 404)
                     /\ UNCHANGED metadataStore
                ELSE IF /\ targetFolderId # ROOT
                        /\ folderStore[targetFolderId].userId # userId
                THEN /\ resp' = Reply("moveFile", 403)
                     /\ UNCHANGED metadataStore
                ELSE /\ metadataStore' = MapSet(metadataStore, fileId,
                                           [file EXCEPT !.folderId = targetFolderId])
                     /\ resp' = [op |-> "moveFile", status |-> 200,
                                 fileId |-> fileId, folderId |-> targetFolderId]
    /\ UNCHANGED <<folderStore, hung>>
    /\ UnchangedFile /\ UnchangedShare

\* ---------------------------------------------------------------- SpecMove
\* Both users create top-level folders; u1 uploads files (connection r1);
\* both users send move-file requests.
MvCreate == \E f \in FolderIds, u \in Users : CreateFolder(f, u, ROOT)
MvUpload == UploadStart("r1", "u1", "a", 1, NULL, FALSE)
MvUploadPut == UploadPut("r1")
MvUploadCreate == UploadCreate("r1")
MvMoveFile ==
    \E u \in Users, f \in FileIds, t \in FolderIds \cup {ROOT} : MoveFile(u, f, t)

NextMove ==
    \/ MvCreate
    \/ MvUpload
    \/ MvUploadPut
    \/ MvUploadCreate
    \/ MvMoveFile
SpecMove == Init /\ [][NextMove]_vars

\* C20: a move-file request on an existing file succeeds only if the
\* requester owns the file and the target is "root" or a stored folder of the
\* same user; a successful move changes the file's folderId and nothing else
\* (versions, currentVersion, keys and stored objects stay), and a rejected
\* move leaves every file record unchanged.
C20_Step ==
    \A u \in Users, f \in FileIds, t \in FolderIds \cup {ROOT} :
        (MoveFile(u, f, t) /\ f \in DOMAIN metadataStore) =>
            LET allowed ==
                    /\ metadataStore[f].userId = u
                    /\ \/ t = ROOT
                       \/ t \in StoredFolders /\ folderStore[t].userId = u
            IN  /\ resp'.status = 200 => allowed
                /\ resp'.status = 200 =>
                       /\ metadataStore' =
                              [metadataStore EXCEPT ![f].folderId = t]
                       /\ objects' = objects
                /\ resp'.status # 200 => metadataStore' = metadataStore
C20_MoveFileOwnerOnly == [][C20_Step]_vars

\* C21: a moveFolder request on a stored folder that succeeds has a target
\* that is "root" or a stored folder of the same owner, sets the folder's
\* parentId to the target and changes no other folder and no file record; a
\* move into a missing folder or into another owner's folder is answered with
\* an error and changes nothing.
C21_Step ==
    \A a \in FolderIds, b \in FolderIds \cup {ROOT} :
        (MoveFolder(a, b) /\ a \in StoredFolders) =>
            LET sameOwner == /\ b \in StoredFolders
                             /\ folderStore[b].userId = folderStore[a].userId
            IN  /\ resp' = Reply("moveFolder", 200) =>
                       /\ b = ROOT \/ sameOwner
                       /\ folderStore' = [folderStore EXCEPT ![a].parentId = b]
                       /\ metadataStore' = metadataStore
                /\ (b # ROOT /\ ~sameOwner) =>
                       /\ resp' \in {Reply("moveFolder", s) : s \in {400, 403, 404}}
                       /\ folderStore' = folderStore
C21_MoveFolderFrame == [][C21_Step]_vars

\* the same on folder stores in which no folder is its own ancestor
C21_AcyclicOnly == [][C2_NoFolderIsOwnAncestor => C21_Step]_vars

\* file f was created and its record has been destroyed
Deleted(f) == created[f][1] >= 1 /\ f \notin DOMAIN metadataStore

\* C22: the step that completes a delete-file request with success removes
\* the file record and leaves no stored object of a version the record
\* retained; from then on download, list-versions, replace-version and
\* delete-file requests for that file id are answered 404.
C22_Step ==
    /\ \A r \in Slots :
           (DeleteMeta(r) /\ resp'.op = "delete" /\ resp'.status = 200) =>
               LET f == req[r].fileId
               IN  /\ f \notin DOMAIN metadataStore'
                   /\ \A i \in 1..Len(metadataStore[f].versions) :
                          metadataStore[f].versions[i].s3Key \notin objects'
    /\ \A f \in FileIds, u \in Users :
           Deleted(f) =>
               /\ \A r \in Slots, name \in Filenames, size \in Sizes :
                      ReplaceGet(r, u, f, name, size) => resp' = Reply("replace", 404)
               /\ \A r \in Slots :
                      DeleteGet(r, u, f) => resp' = Reply("delete", 404)
               /\ \A v \in VersionParams :
                      (Download(u, f, v) /\ validateVersionParam(v)) =>
                          resp'.status = 404
               /\ ListVersions(u, f) => resp'.status = 404
C22_DeletedStaysDeleted == [][C22_Step]_vars

\* C23: a create-folder request whose folderId is already stored is answered
\* 409 and leaves the stored record as it was.
C23_Step ==
    \A f \in FolderIds, u \in Users, p \in FolderIds \cup {ROOT} :
        (CreateFolder(f, u, p) /\ f \in StoredFolders) =>
            /\ resp' = Reply("createFolder", 409)
            /\ folderStore' = folderStore
C23_DuplicateIdConflict == [][C23_Step]_vars

\* C24: no state has a request in flight that has already deleted the stored
\* object of a version which the file record still lists (the metadata write
\* comes before the physical deletion, in replace-version and in delete-file).
C24_MetadataBeforeDeletion ==
    \A r \in Slots :
        LET q == req[r]
            Listed(v) ==
                /\ q.fileId \in DOMAIN metadataStore
                /\ \E i \in 1..Len(metadataStore[q.fileId].versions) :
                       metadataStore[q.fileId].versions[i] = v
        IN  /\ (q.op = "replace" /\ q.pc = "update") =>
                   \A i \in 1..Len(Managed(q).deletedVersion) :
                       LET v == Managed(q).deletedVersion[i]
                       IN  v.s3Key \notin objects => ~Listed(v)
            /\ q.op = "delete" =>
                   \A i \in 1..Len(q.metadata.versions) :
                       LET v == q.metadata.versions[i]
                       IN  (i < q.i /\ v.s3Key \notin objects) => ~Listed(v)

\* C25: when the deletion of the evicted version's object fails, the
\* replace-version request goes on and succeeds: the file record gets the new
\* version list without the evicted version, the new version is current, the
\* answer is 200 and the evicted object stays in the bucket.
C25_Step ==
    LET q == req["r1"]
        m == Managed(q)
    IN  /\ (ReplaceEvict("r1", FALSE) /\ m.deletedVersion # <<>>) =>
               /\ resp' = NoResp
               /\ req' = [req EXCEPT !["r1"].pc = "update"]
               /\ objects' = objects
        /\ (/\ ReplaceUpdate("r1")
            /\ m.deletedVersion # <<>>
            /\ m.deletedVersion[1].s3Key \in objects) =>
               /\ resp'.status = 200
               /\ resp'.currentVersion = q.newVersion
               /\ metadataStore'[q.fileId].currentVersion = q.newVersion
               /\ metadataStore'[q.fileId].versions = m.versionsToKeep
               /\ m.deletedVersion[1].version
                      \notin VersionNumbers(metadataStore'[q.fileId].versions)
               /\ m.deletedVersion[1].s3Key \in objects'
C25_EvictionFailureTolerated == [][C25_Step]_vars

\* a replace has answered 200 and the object of the version it evicted is
\* still in the bucket
C25_Witness ==
    /\ resp.op = "replace" /\ resp.status = 200
    /\ resp.deletedVersion # <<>>
    /\ resp.deletedVersion[1].s3Key \in objects
    /\ resp.deletedVersion[1].version
           \notin VersionNumbers(metadataStore[resp.fileId].versions)
    /\ metadataStore[resp.fileId].currentVersion = resp.currentVersion

\* C26: on every folder store reached through createFolder, moveFolder and
\* deleteFolderRecursive requests the ancestor walk of isDescendant and the
\* descendant expansion of getAllDescendants end within as many steps as
\* there are stored folders, and no request is left unanswered.
C26_WalksTerminate ==
    /\ ~hung
    /\ \A a \in FolderIds, b \in FolderIds \cup {ROOT} :
           isDescendant(a, b) # "loop"
    /\ \A f \in FolderIds \cup {ROOT} : ~getAllDescendants(f).overflow

\* --------------------------------------------------------------- SpecMoves
\* Move-folder requests, in any order, on any folder store in which no folder
\* is its own ancestor. The handler has no await: it runs from its first read
\* of folderStore to its write without any other handler in between.
FolderStores ==
    UNION {[D -> [userId : Users, parentId : FolderIds \cup {ROOT}]] :
              D \in SUBSET FolderIds}

InitMoves ==
    /\ metadataStore = <<>>
    /\ folderStore \in FolderStores
    /\ \A f \in StoredFolders : f \notin AncestorsOf(f)
    /\ objects = {}
    /\ shareTable = <<>>
    /\ minted = <<>>
    /\ users = [u \in Users |-> [storageQuota |-> StorageQuota, storageUsed |-> 0]]
    /\ req = [r \in Slots |-> Idle]
    /\ resp = NoResp
    /\ nextFileId = 1
    /\ nextPublicId = 1
    /\ now = 0
    /\ created = [f \in FileIds |-> [v \in 1..(MaxVersionNum + 1) |-> 0]]
    /\ failed = FALSE
    /\ hung = FALSE

MovesMove ==
    \E f \in FolderIds, t \in FolderIds \cup {ROOT} : MoveFolder(f, t)

NextMoves == MovesMove
SpecMoves == InitMoves /\ [][NextMoves]_vars

\* C27: starting from a folder store without cycles, move-folder requests in
\* any order leave the store without cycles, and every one of them is answered.
C27_MovesKeepAcyclic ==
    /\ \A f \in StoredFolders : ~DescendantOf(f, f)
    /\ ~hung
    /\ resp.op \in {"none", "moveFolder"}

\* a move has succeeded in a store where a chain of three folders exists
C27_Witness ==
    /\ resp = Reply("moveFolder", 200)
    /\ \E a, b, c \in StoredFolders :
           /\ folderStore[a].parentId = ROOT
           /\ folderStore[b].parentId = a
           /\ folderStore[c].parentId = b

\* ---------------------------------------------------------------- SpecBind
\* Two files of one owner, one share link per file, and redemptions that pair
\* any issued public id with any issued token.
BindUpload == \E name \in Filenames : UploadStart("r1", "u1", name, 1, NULL, FALSE)
BindUploadPut == UploadPut("r1")
BindUploadCreate == UploadCreate("r1")
BindIssue ==
    /\ nextPublicId <= MaxFiles
    /\ \E f \in FileIds : IssueShare("u1", f, TRUE)
BindRedeem == \E p \in PublicIds, t \in Presented : Redeem(p, t)

NextBind ==
    \/ BindUpload
    \/ BindUploadPut
    \/ BindUploadCreate
    \/ BindIssue
    \/ BindRedeem
SpecBind == Init /\ [][NextBind]_vars

\* C28: a redemption is answered with a download URL only when the token
\* names the file of the share record stored under the presented public id.
C28_TokenBoundToShare ==
    (resp.op = "redeem" /\ resp.status = 302) =>
        /\ resp.publicId \in DOMAIN shareTable
        /\ resp.token.fileId = shareTable[resp.publicId].fileId

\* C29: a move-file request authenticated as R leaves every file record and
\* every folder record owned by another user as it was.
C29_Step ==
    \A R \in Users, f \in FileIds, t \in FolderIds \cup {ROOT} :
        MoveFile(R, f, t) =>
            /\ \A g \in DOMAIN metadataStore :
                   metadataStore[g].userId # R =>
                       /\ g \in DOMAIN metadataStore'
                       /\ metadataStore'[g] = metadataStore[g]
            /\ \A d \in StoredFolders :
                   folderStore[d].userId # R =>
                       /\ d \in DOMAIN folderStore'
                       /\ folderStore'[d] = folderStore[d]
C29_OthersRecordsUntouched == [][C29_Step]_vars

\* C30: a redemption of a token of a file that still exists is answered with
\* a download URL only if the version named in the token is still retained
\* (an evicted version's object is gone, so its URL would address nothing).
C30_NoUrlForEvictedVersion ==
    (/\ resp.op = "redeem"
     /\ resp.status = 302
     /\ resp.token.fileId \in DOMAIN metadataStore) =>
        resp.token.version \in
            VersionNumbers(metadataStore[resp.token.fileId].versions)

====
